---- MODULE Spec2Model ----
(***************************************************************************)
(* Resilient request execution layer of the API integration framework:     *)
(* CircuitBreaker, RateLimiter and IntegrationHttpClient.request           *)
(* (src/src/services/http_client.py), with the settings of                 *)
(* src/src/core/config.py.                                                 *)
(*                                                                         *)
(* Time is datetime.utcnow() read in whole seconds; the clock advances in  *)
(* steps of TickStep seconds.  RateLimiter.tokens is a real number in the  *)
(* code; the model keeps it exactly, as the integer tokens * window (all   *)
(* elapsed times are whole seconds, so tokens * window is an integer).     *)
(***************************************************************************)
EXTENDS Integers, Sequences, FiniteSets, TLC

(* ---------------------------- bounds ----------------------------------- *)
TickStep == 15       \* seconds the clock advances per Tick
MaxTime == 90        \* the clock stops advancing here
MaxFailures == 7     \* cap on failure_count (unbounded in the code)
MaxRate == 2         \* RateLimiter(rate, window): rate drawn from 1..MaxRate
MaxAcquires == 4     \* cap on the acquire() calls counted on one limiter
NumConnectors == 2   \* connector ids are 1..NumConnectors
NumTasks == 2        \* concurrent callers of IntegrationHttpClient.request
MaxRetriesArg == 1   \* the retries argument is None or in 0..MaxRetriesArg
MaxCalls == 2        \* request() calls made where several connectors are used
NumRuns == 2         \* invocations of WorkflowEngine.execute_workflow
MaxSteps == 3        \* a workflow has 0..MaxSteps steps
\* settings.default_rate_limit, an environment setting (100 when unset); the
\* model runs with a small limit so that a limiter can be exhausted
default_rate_limit == 2

(* --------------------------- settings ---------------------------------- *)
circuit_breaker_threshold == 5
circuit_breaker_timeout == 30
rate_limit_window == 60
default_max_retries == 3
default_retry_delay == 5

None == -1           \* Optional[...] = None

VARIABLES
    now,             \* datetime.utcnow(), seconds
    cb,              \* one CircuitBreaker driven directly (as the unit tests do)
    cbCall,          \* the last call made on cb: its name, result, and what it saw
    failsSince,      \* record_failure calls on cb since the last record_success
    rl,              \* one RateLimiter driven directly
    rlCall,          \* the acquire() calls made on rl: count, last result, time elapsed
    exponential_backoff,  \* settings.exponential_backoff, read at startup
    circuit_breakers,     \* IntegrationHttpClient.circuit_breakers: connector id -> CircuitBreaker
    rate_limiters,        \* IntegrationHttpClient.rate_limiters: connector id -> RateLimiter
    task,            \* each caller's position in request() and its locals
    obs,             \* what each caller's current (or last) request() call did
    conc,            \* what the concurrent callers did together: probes in flight,
                     \* calls admitted since the clock last moved, ids requested
    runs,            \* each execute_workflow invocation: its position and context
    cancels          \* cancel_execution calls: the step count of the run at the call

cbVars == <<cb, cbCall, failsSince>>
rlVars == <<rl, rlCall>>
clientVars == <<exponential_backoff, circuit_breakers, rate_limiters, task, obs>>
wfVars == <<runs, cancels>>
vars == <<now, cb, cbCall, failsSince, rl, rlCall,
          exponential_backoff, circuit_breakers, rate_limiters, task, obs,
          conc, runs, cancels>>

Connectors == 1..NumConnectors
Tasks == 1..NumTasks
RetriesArgs == {None} \cup (0..MaxRetriesArg)
Runs == 1..NumRuns

Min(a, b) == IF a <= b THEN a ELSE b

(* ------------------------- CircuitBreaker ------------------------------ *)
CircuitBreaker ==
    [failure_count |-> 0, last_failure_time |-> None, state |-> "CLOSED"]

record_success_count_only(b) ==
    [b EXCEPT !.failure_count = 0]

record_success(b) ==
    [b EXCEPT !.failure_count = 0, !.state = "CLOSED"]

record_failure_gt(b, t) ==
    [b EXCEPT !.failure_count = @ + 1,
              !.last_failure_time = t,
              !.state = IF b.failure_count + 1 > circuit_breaker_threshold
                        THEN "OPEN" ELSE @]

record_failure(b, t) ==
    [b EXCEPT !.failure_count = @ + 1,
              !.last_failure_time = t,
              !.state = IF b.failure_count + 1 >= circuit_breaker_threshold
                        THEN "OPEN" ELSE @]

\* now - last_failure_time > timedelta(seconds=circuit_breaker_timeout)
cooldown_elapsed_ge(b, t) ==
    b.last_failure_time # None /\ t - b.last_failure_time >= circuit_breaker_timeout

cooldown_elapsed(b, t) ==
    b.last_failure_time # None /\ t - b.last_failure_time > circuit_breaker_timeout

can_execute_clearing(b, t) ==
    IF b.state = "CLOSED" THEN [ret |-> TRUE, cb |-> b]
    ELSE IF b.state = "OPEN"
         THEN IF cooldown_elapsed(b, t)
              THEN [ret |-> TRUE, cb |-> [b EXCEPT !.state = "HALF_OPEN"]]
              ELSE [ret |-> FALSE, cb |-> [b EXCEPT !.failure_count = 0]]
         ELSE [ret |-> TRUE, cb |-> b]

\* can_execute returns a bool and may move OPEN to HALF_OPEN
can_execute(b, t) ==
    IF b.state = "CLOSED" THEN [ret |-> TRUE, cb |-> b]
    ELSE IF b.state = "OPEN"
         THEN IF cooldown_elapsed(b, t)
              THEN [ret |-> TRUE, cb |-> [b EXCEPT !.state = "HALF_OPEN"]]
              ELSE [ret |-> FALSE, cb |-> b]
         ELSE [ret |-> TRUE, cb |-> b]

(* --------------------------- RateLimiter ------------------------------- *)
\* tokens holds tokens * window
RateLimiter(rate, window, t) ==
    [rate |-> rate, window |-> window, tokens |-> rate * window, last_update |-> t]

acquire_nocap(l, t) ==
    LET elapsed == t - l.last_update
        refilled == l.tokens + elapsed * l.rate
    IN  IF refilled >= l.window
        THEN [ret |-> TRUE,
              rl |-> [l EXCEPT !.tokens = refilled - l.window, !.last_update = t]]
        ELSE [ret |-> FALSE,
              rl |-> [l EXCEPT !.tokens = refilled, !.last_update = t]]

acquire_no_debit(l, t) ==
    LET elapsed == t - l.last_update
        refilled == Min(l.rate * l.window, l.tokens + elapsed * l.rate)
    IN  IF refilled >= l.window
        THEN [ret |-> TRUE,
              rl |-> [l EXCEPT !.tokens = refilled, !.last_update = t]]
        ELSE [ret |-> FALSE,
              rl |-> [l EXCEPT !.tokens = refilled, !.last_update = t]]

acquire_off_by_one(l, t) ==
    LET elapsed == t - l.last_update
        refilled == Min(l.rate * l.window, l.tokens + elapsed * l.rate)
    IN  IF refilled > l.window
        THEN [ret |-> TRUE,
              rl |-> [l EXCEPT !.tokens = refilled - l.window, !.last_update = t]]
        ELSE [ret |-> FALSE,
              rl |-> [l EXCEPT !.tokens = refilled, !.last_update = t]]

acquire(l, t) ==
    LET elapsed == t - l.last_update
        refilled == Min(l.rate * l.window, l.tokens + elapsed * l.rate)
    IN  IF refilled >= l.window
        THEN [ret |-> TRUE,
              rl |-> [l EXCEPT !.tokens = refilled - l.window, !.last_update = t]]
        ELSE [ret |-> FALSE,
              rl |-> [l EXCEPT !.tokens = refilled, !.last_update = t]]

(* ------------------------------ clock ---------------------------------- *)
Advance == now < MaxTime /\ now' = now + TickStep

(* ----------------------- IntegrationHttpClient ------------------------- *)
\* the registries are dicts: functions whose domain is the ids seen so far
get_circuit_breaker_fresh(breakers, connector_id) ==
    (connector_id :> CircuitBreaker) @@ breakers

get_circuit_breaker(breakers, connector_id) ==
    IF connector_id \in DOMAIN breakers THEN breakers
    ELSE breakers @@ (connector_id :> CircuitBreaker)

get_rate_limiter_rebuilt(limiters, connector_id, t) ==
    [c \in DOMAIN limiters \cup {connector_id} |->
        IF c = connector_id /\ c \in DOMAIN limiters THEN limiters[c]
        ELSE RateLimiter(default_rate_limit, rate_limit_window, t)]

get_rate_limiter(limiters, connector_id, t) ==
    IF connector_id \in DOMAIN limiters THEN limiters
    ELSE limiters @@ (connector_id :> RateLimiter(default_rate_limit, rate_limit_window, t))

\* max_retries = retries or settings.default_max_retries  (None and 0 are falsy)
max_retries_of(retries) ==
    IF retries = None \/ retries = 0 THEN default_max_retries ELSE retries

\* delay = default_retry_delay, times 2 ** attempt under exponential backoff
retry_delay_doubled(attempt, exponential) ==
    IF exponential THEN default_retry_delay * (2 ^ (attempt + 1)) ELSE default_retry_delay

retry_delay(attempt, exponential) ==
    IF exponential THEN default_retry_delay * (2 ^ attempt) ELSE default_retry_delay

IdleTask == [pc |-> "idle", connector |-> None, max_retries |-> 0,
             attempt |-> 0, wake |-> 0]

NoRequest == [retries |-> None, attempts |-> 0, sleeps |-> << >>,
              outcome |-> "none", cb_ok |-> "uncalled", rl_ok |-> "uncalled",
              successes |-> 0, failures |-> 0, granted |-> 0,
              rejecting |-> FALSE]

\* a run not yet started (ExecutionContext not yet constructed); started is
\* history: the types of the steps _execute_step was called on, in call order
IdleRun == [pc |-> "idle", execution_id |-> None, n_steps |-> 0,
            stop_on_error |-> TRUE, step_results |-> << >>,
            wake |-> 0, seconds |-> 0, status |-> "none", started |-> << >>]

NoConc == [probes |-> {}, grants |-> 0, requested |-> {}, calls |-> 0,
           target |-> None]

EngineIdle ==
    /\ runs = [r \in Runs |-> IdleRun]
    /\ cancels = [r \in Runs |-> None]
    /\ conc = NoConc

ClientIdle ==
    /\ exponential_backoff = TRUE
    /\ circuit_breakers = << >>
    /\ rate_limiters = << >>
    /\ task = [t \in Tasks |-> IdleTask]
    /\ obs = [t \in Tasks |-> NoRequest]

\* the breaker refuses calls at time t: Open, cooldown not elapsed
Rejecting(b, t) ==
    b.state = "OPEN" /\ ~(b.last_failure_time # None
                          /\ t - b.last_failure_time > circuit_breaker_timeout)

(* ------------- a CircuitBreaker driven by direct calls ------------------ *)
\* what a call on b at time t finds: more than the cooldown since the last failure
PastCooldown(b, t) ==
    b.last_failure_time # None /\ t - b.last_failure_time > circuit_breaker_timeout

NoCall == [op |-> "none", ret |-> TRUE, was |-> "CLOSED", elapsed |-> FALSE]

InitCB ==
    /\ now = 0
    /\ cb = CircuitBreaker
    /\ cbCall = NoCall
    /\ failsSince = 0
    /\ rl = RateLimiter(1, rate_limit_window, 0)
    /\ rlCall = [n |-> 0, ret |-> TRUE, waited |-> FALSE]
    /\ EngineIdle
    /\ ClientIdle

CBRecordSuccess ==
    /\ cb' = record_success(cb)
    /\ cbCall' = [op |-> "record_success", ret |-> TRUE, was |-> cb.state,
                  elapsed |-> PastCooldown(cb, now)]
    /\ failsSince' = 0
    /\ UNCHANGED <<now, rlVars, clientVars, conc, wfVars>>

CBRecordFailure ==
    /\ cb.failure_count < MaxFailures
    /\ cb' = record_failure(cb, now)
    /\ cbCall' = [op |-> "record_failure", ret |-> TRUE, was |-> cb.state,
                  elapsed |-> PastCooldown(cb, now)]
    /\ failsSince' = failsSince + 1
    /\ UNCHANGED <<now, rlVars, clientVars, conc, wfVars>>

CBCanExecute ==
    /\ cb' = can_execute(cb, now).cb
    /\ cbCall' = [op |-> "can_execute", ret |-> can_execute(cb, now).ret,
                  was |-> cb.state,
                  elapsed |-> PastCooldown(cb, now)]
    /\ UNCHANGED <<now, failsSince, rlVars, clientVars, conc, wfVars>>

CBTick ==
    /\ Advance
    /\ UNCHANGED <<cbVars, rlVars, clientVars, conc, wfVars>>

NextCB == CBRecordSuccess \/ CBRecordFailure \/ CBCanExecute \/ CBTick

SpecCB == InitCB /\ [][NextCB]_vars

(* claim C1: while the breaker has not been half-opened by an elapsed      *)
(* cooldown, it is Open exactly when the failures recorded since the last  *)
(* record_success number at least the threshold, and can_execute() returns *)
(* false exactly then (true after 4 failures, false after the 5th).        *)
C1_OpenIffThresholdFailures ==
    /\ cb.state # "HALF_OPEN" =>
          ((cb.state = "OPEN") <=> (failsSince >= circuit_breaker_threshold))
    /\ (cbCall.op = "can_execute" /\ cbCall.was # "HALF_OPEN" /\ ~cbCall.elapsed) =>
          (cbCall.ret <=> (failsSince < circuit_breaker_threshold))

C1_Witness ==
    /\ failsSince = circuit_breaker_threshold
    /\ cb.state = "OPEN"
    /\ cbCall.op = "can_execute"
    /\ cbCall.ret = FALSE

(* claim C2: a can_execute() call on an Open breaker returns true and      *)
(* moves it to HalfOpen exactly when now - last_failure_time > cooldown at *)
(* that call; otherwise it returns false and the breaker stays Open.       *)
C2_HalfOpenIffCooldownElapsed ==
    (cbCall.op = "can_execute" /\ cbCall.was = "OPEN") =>
        /\ (cbCall.ret /\ cb.state = "HALF_OPEN") <=> cbCall.elapsed
        /\ ~cbCall.elapsed => (~cbCall.ret /\ cb.state = "OPEN")

C2_Witness ==
    /\ cbCall.op = "can_execute"
    /\ cbCall.was = "OPEN"
    /\ cbCall.elapsed
    /\ cbCall.ret
    /\ cb.state = "HALF_OPEN"

(* -------------- a RateLimiter driven by direct calls ------------------- *)
InitRL ==
    /\ now = 0
    /\ cb = CircuitBreaker
    /\ cbCall = NoCall
    /\ failsSince = 0
    /\ \E rate \in 1..MaxRate : rl = RateLimiter(rate, rate_limit_window, 0)
    /\ rlCall = [n |-> 0, ret |-> TRUE, waited |-> FALSE]
    /\ EngineIdle
    /\ ClientIdle

RLAcquire ==
    /\ rlCall.n < MaxAcquires
    /\ rl' = acquire(rl, now).rl
    /\ rlCall' = [rlCall EXCEPT !.n = @ + 1, !.ret = acquire(rl, now).ret]
    /\ UNCHANGED <<now, cbVars, clientVars, conc, wfVars>>

RLTick ==
    /\ Advance
    /\ rlCall' = [rlCall EXCEPT !.waited = TRUE]
    /\ UNCHANGED <<cbVars, rl, clientVars, conc, wfVars>>

NextRL == RLAcquire \/ RLTick

SpecRL == InitRL /\ [][NextRL]_vars

(* claim C4: after construction and after every acquire() made at          *)
(* non-decreasing times, 0 <= tokens <= capacity.                          *)
C4_TokensWithinCapacity ==
    /\ 0 <= rl.tokens
    /\ rl.tokens <= rl.rate * rl.window

C4_Witness ==
    /\ rlCall.n >= 2
    /\ rlCall.waited
    /\ rl.last_update = now
    /\ 0 < rl.tokens
    /\ rl.tokens < rl.window

(* claim C5: on a fresh limiter of capacity N, with no time elapsing, the  *)
(* first N acquire() calls return true and every later one returns false.  *)
C5_FirstNAcquiresSucceed ==
    (~rlCall.waited /\ rlCall.n >= 1) => (rlCall.ret <=> (rlCall.n <= rl.rate))

C5_Witness ==
    /\ ~rlCall.waited
    /\ rl.rate = 2
    /\ rlCall.n = 3
    /\ rlCall.ret = FALSE

(* ------------------ IntegrationHttpClient.request ---------------------- *)
(* request() runs without suspending from its first line to the await of   *)
(* the first network call (acquire() is a coroutine that never suspends),   *)
(* then from each response to the next await (sleep or network call).      *)

YesNo(flag) == IF flag THEN "yes" ELSE "no"

guard_verdict_no_limiter(can_exec, acquired) ==
    IF ~can_exec THEN "circuit_open" ELSE "admitted"

\* lines 113-117: the two guards, the breaker first
guard_verdict(can_exec, acquired) ==
    IF ~can_exec THEN "circuit_open"
    ELSE IF ~acquired THEN "rate_limited"
    ELSE "admitted"

\* line 147: a sleep follows a failed attempt only if another attempt remains
retry_remains(attempt, max_retries) == attempt < max_retries

\* what the handling of one response does to the breaker.  "ok" is a success
\* status with an empty or JSON body; "ok_bad_body" is a success status whose
\* body response.json() cannot parse: record_success() has run when json()
\* raises inside the try block, and the except clause then records a failure;
\* "error" is a transport error or an error status.
breaker_after(b, response, t) ==
    IF response = "ok" THEN record_success(b)
    ELSE IF response = "ok_bad_body" THEN record_failure(record_success(b), t)
    ELSE record_failure(b, t)

Responses == {"ok", "ok_bad_body", "error"}

Init ==
    /\ now = 0
    /\ cb = CircuitBreaker
    /\ cbCall = NoCall
    /\ failsSince = 0
    /\ rl = RateLimiter(1, rate_limit_window, 0)
    /\ rlCall = [n |-> 0, ret |-> TRUE, waited |-> FALSE]
    /\ EngineIdle
    /\ exponential_backoff \in BOOLEAN
    /\ circuit_breakers = << >>
    /\ rate_limiters = << >>
    /\ task = [t \in Tasks |-> IdleTask]
    /\ obs = [t \in Tasks |-> NoRequest]

Request(t, connector_id, retries) ==
    /\ task[t].pc = "idle"
    /\ LET breakers == get_circuit_breaker(circuit_breakers, connector_id)
           limiters == get_rate_limiter(rate_limiters, connector_id, now)
           ce == can_execute(breakers[connector_id], now)
           aq == acquire(limiters[connector_id], now)
       IN  /\ circuit_breakers' = [breakers EXCEPT ![connector_id] = ce.cb]
           /\ rate_limiters' = IF ce.ret
                                THEN [limiters EXCEPT ![connector_id] = aq.rl]
                                ELSE limiters
           /\ task' = [task EXCEPT ![t] =
                         IF guard_verdict(ce.ret, aq.ret) = "admitted"
                         THEN [pc |-> "inflight", connector |-> connector_id,
                               max_retries |-> max_retries_of(retries),
                               attempt |-> 0, wake |-> 0]
                         ELSE IdleTask]
    /\ UNCHANGED <<now, cbVars, rlVars, wfVars, exponential_backoff>>

Respond(t, response) ==
    /\ task[t].pc = "inflight"
    /\ LET c == task[t].connector
           b == circuit_breakers[c]
       IN  /\ (response = "error") => b.failure_count < MaxFailures
           /\ circuit_breakers' =
                  [circuit_breakers EXCEPT ![c] = breaker_after(b, response, now)]
           /\ task' = [task EXCEPT ![t] =
                         IF response = "ok" THEN IdleTask
                         ELSE IF retry_remains(task[t].attempt, task[t].max_retries)
                         THEN [@ EXCEPT !.pc = "sleeping",
                                        !.wake = now + retry_delay(task[t].attempt,
                                                                   exponential_backoff)]
                         ELSE IdleTask]
    /\ UNCHANGED <<now, cbVars, rlVars, wfVars, exponential_backoff, rate_limiters>>

\* asyncio.sleep(delay) returns once delay seconds have passed; the loop then
\* issues the next attempt straight away (lines 122-125)
Wake(t) ==
    /\ task[t].pc = "sleeping"
    /\ now >= task[t].wake
    /\ task' = [task EXCEPT ![t].pc = "inflight", ![t].attempt = @ + 1, ![t].wake = 0]
    /\ UNCHANGED <<now, cbVars, rlVars, wfVars, exponential_backoff, circuit_breakers, rate_limiters>>

Tick ==
    /\ Advance
    /\ UNCHANGED <<cbVars, rlVars, clientVars, wfVars>>

(* ----- the record of what a request() call did, kept beside the steps --- *)
ObsRequest(t, connector_id, retries) ==
    LET breakers == get_circuit_breaker(circuit_breakers, connector_id)
        limiters == get_rate_limiter(rate_limiters, connector_id, now)
        ce == can_execute(breakers[connector_id], now)
        aq == acquire(limiters[connector_id], now)
        issued == task'[t].pc = "inflight"
        debited == rate_limiters'[connector_id] # limiters[connector_id]
                   /\ rate_limiters'[connector_id].tokens = aq.rl.tokens
                   /\ aq.ret
    IN  obs' = [obs EXCEPT ![t] =
                  [NoRequest EXCEPT
                     !.retries = retries,
                     !.cb_ok = YesNo(ce.ret),
                     !.rl_ok = IF ce.ret THEN YesNo(aq.ret) ELSE "uncalled",
                     !.granted = IF debited THEN 1 ELSE 0,
                     !.attempts = IF issued THEN 1 ELSE 0,
                     !.rejecting = issued /\ Rejecting(circuit_breakers'[connector_id], now),
                     !.outcome = IF issued THEN "pending"
                                 ELSE guard_verdict(ce.ret, aq.ret)]]

ObsRespond(t, response) ==
    LET seen == [obs[t] EXCEPT
                    !.successes = IF response = "error" THEN @ ELSE @ + 1,
                    !.failures = IF response = "ok" THEN @ ELSE @ + 1]
    IN  obs' = [obs EXCEPT ![t] =
                  IF task'[t].pc = "sleeping"
                  THEN [seen EXCEPT !.sleeps = Append(@, task'[t].wake - now)]
                  ELSE [seen EXCEPT !.outcome = IF response = "ok" THEN "ok" ELSE "failed"]]

ObsWake(t) ==
    obs' = [obs EXCEPT ![t].attempts = @ + 1,
                       ![t].rejecting =
                           @ \/ Rejecting(circuit_breakers[task[t].connector], now)]

\* one caller issuing request() calls one after the other on one connector
NextSolo ==
    \/ \E r \in RetriesArgs : Request(1, 1, r) /\ ObsRequest(1, 1, r) /\ UNCHANGED conc
    \/ \E response \in Responses :
          Respond(1, response) /\ ObsRespond(1, response) /\ UNCHANGED conc
    \/ Wake(1) /\ ObsWake(1) /\ UNCHANGED conc
    \/ Tick /\ UNCHANGED conc

SpecSolo == Init /\ [][NextSolo]_vars

(* ---- what concurrent callers did together, kept beside the steps ------ *)
\* a call admitted while the breaker is HalfOpen is a probe until its first
\* outcome is recorded; grants counts the calls the limiter admitted since
\* the clock last moved; requested holds the connector ids passed so far
ConcRequest(t, connector_id) ==
    LET admitted == task'[t].pc = "inflight"
    IN  conc' = [conc EXCEPT
                   !.probes = IF admitted
                                 /\ circuit_breakers'[connector_id].state = "HALF_OPEN"
                              THEN @ \cup {t} ELSE @,
                   !.grants = IF admitted THEN @ + 1 ELSE @,
                   !.requested = @ \cup {connector_id},
                   !.target = connector_id]

\* the same, for a caller that makes at most MaxCalls calls
ConcRequestCounted(t, connector_id) ==
    LET admitted == task'[t].pc = "inflight"
    IN  /\ conc.calls < MaxCalls
        /\ conc' = [conc EXCEPT
                      !.probes = IF admitted
                                    /\ circuit_breakers'[connector_id].state = "HALF_OPEN"
                                 THEN @ \cup {t} ELSE @,
                      !.grants = IF admitted THEN @ + 1 ELSE @,
                      !.requested = @ \cup {connector_id},
                      !.calls = @ + 1,
                      !.target = connector_id]

ConcRespond(t) == conc' = [conc EXCEPT !.probes = @ \ {t}]

ConcTick == conc' = [conc EXCEPT !.grants = 0]

\* concurrent callers on one connector, with the default settings, each call
\* passing retries=1 (one retry); no record of the individual calls is kept
Next ==
    \/ \E t \in Tasks : Request(t, 1, 1) /\ ConcRequest(t, 1) /\ UNCHANGED obs
    \/ \E t \in Tasks, response \in Responses :
          Respond(t, response) /\ ConcRespond(t) /\ UNCHANGED obs
    \/ \E t \in Tasks : Wake(t) /\ UNCHANGED <<obs, conc>>
    \/ Tick /\ ConcTick

InitDefault == Init /\ exponential_backoff = TRUE

Spec == InitDefault /\ [][Next]_vars

(* claim C3: in every state reached through record_success, record_failure *)
(* and can_execute, as called by any number of concurrent request() calls, *)
(* a breaker that is Open has failure_count >= threshold.                   *)
C3_OpenImpliesThresholdReached ==
    \A c \in DOMAIN circuit_breakers :
        circuit_breakers[c].state = "OPEN" =>
            circuit_breakers[c].failure_count >= circuit_breaker_threshold

C3_Witness ==
    /\ 1 \in DOMAIN circuit_breakers
    /\ circuit_breakers[1].state = "OPEN"
    /\ circuit_breakers[1].failure_count > circuit_breaker_threshold
    /\ \E t \in Tasks : task[t].pc = "inflight"

(* claim C6: a request() call that the breaker rejects (can_execute()      *)
(* false) or the limiter rejects (acquire() false) fails with the matching *)
(* error, circuit open or rate limit exceeded, and issues no network       *)
(* attempt.                                                                *)
C6_RejectedCallMakesNoAttempt ==
    \A t \in Tasks :
        /\ obs[t].cb_ok = "no" =>
              (obs[t].outcome = "circuit_open" /\ obs[t].attempts = 0
               /\ task[t].pc = "idle")
        /\ obs[t].rl_ok = "no" =>
              (obs[t].outcome = "rate_limited" /\ obs[t].attempts = 0
               /\ task[t].pc = "idle")

C6_Witness ==
    /\ obs[1].cb_ok = "no"
    /\ obs[1].outcome = "circuit_open"
    /\ rate_limiters[1].tokens < rate_limiters[1].window

(* claim C7: for every retries argument >= 0 given to request(), a call    *)
(* admitted by the guards whose attempts all fail makes exactly            *)
(* retries + 1 network attempts and then raises the last failure.          *)
C7_ExactlyRetriesPlusOneAttempts ==
    \A t \in Tasks :
        (obs[t].outcome = "failed" /\ obs[t].successes = 0 /\ obs[t].retries # None) =>
            obs[t].attempts = obs[t].retries + 1

(* claim C8: the sleep after failed attempt number a (from 0) lasts        *)
(* base_delay * 2^a under exponential backoff (5, 10, 20 for base_delay 5) *)
(* and base_delay otherwise, and a sleep happens only when a further       *)
(* attempt remains: none follows the final attempt.                        *)
C8_BackoffDelays ==
    \A t \in Tasks :
        /\ \A i \in 1..Len(obs[t].sleeps) :
              obs[t].sleeps[i] = IF exponential_backoff
                                 THEN default_retry_delay * (2 ^ (i - 1))
                                 ELSE default_retry_delay
        /\ task[t].pc = "sleeping" =>
              /\ Len(obs[t].sleeps) = obs[t].attempts
              /\ obs[t].attempts < task[t].max_retries + 1
        /\ (task[t].pc # "sleeping" /\ obs[t].attempts > 0) =>
              Len(obs[t].sleeps) = obs[t].attempts - 1

C8_Witness ==
    /\ exponential_backoff
    /\ obs[1].outcome = "failed"
    /\ obs[1].sleeps = <<5, 10, 20>>
    /\ obs[1].attempts = 4

(* claim C9: the first attempt answered with a success status calls        *)
(* record_success() and ends the call at once with its result: no further  *)
(* attempt and no sleep follows it, and each failed attempt before it      *)
(* called record_failure() exactly once.                                   *)
C9_SuccessReturnsImmediately ==
    \A t \in Tasks :
        obs[t].successes >= 1 =>
            /\ task[t].pc = "idle"
            /\ obs[t].outcome = "ok"
            /\ obs[t].successes = 1
            /\ obs[t].failures = obs[t].attempts - 1
            /\ Len(obs[t].sleeps) = obs[t].attempts - 1

(* claim C10: the breaker and the limiter are consulted before each        *)
(* attempt of a request() call: no attempt, first try or retry, is issued  *)
(* while the breaker rejects calls (Open, cooldown not elapsed) or without *)
(* a token granted by the limiter for that attempt.                        *)
C10_GuardsConsultedBeforeEachAttempt ==
    \A t \in Tasks :
        /\ ~obs[t].rejecting
        /\ obs[t].attempts <= obs[t].granted

(* claim C16: while a breaker is HalfOpen at most one trial call is        *)
(* admitted: under any interleaving of concurrent request() calls after    *)
(* the cooldown, no two calls are in flight as probes before one of them   *)
(* has recorded its outcome.                                               *)
C16_AtMostOneProbe ==
    Cardinality(conc.probes) <= 1

(* claim C17: under any interleaving of concurrent request() calls on one  *)
(* connector, with no time elapsing, the number of calls admitted by its   *)
(* limiter of capacity N never exceeds N: no token is spent twice.         *)
C17_NoTokenSpentTwice ==
    /\ conc.grants <= default_rate_limit
    /\ 1 \in DOMAIN rate_limiters =>
          conc.grants * rate_limit_window + rate_limiters[1].tokens
              <= default_rate_limit * rate_limit_window

C17_Witness ==
    /\ conc.grants = default_rate_limit
    /\ rate_limiters[1].tokens < rate_limit_window
    /\ Cardinality({t \in Tasks : task[t].pc = "inflight"}) >= 2

(* claim C20: a breaker's state changes only along Closed->Open,           *)
(* Open->HalfOpen, HalfOpen->Closed and HalfOpen->Open; an Open breaker    *)
(* never becomes Closed without passing through HalfOpen.                  *)
C20_OnlyDeclaredTransitions ==
    [][\A c \in DOMAIN circuit_breakers :
          \/ circuit_breakers'[c].state = circuit_breakers[c].state
          \/ <<circuit_breakers[c].state, circuit_breakers'[c].state>> \in
                {<<"CLOSED", "OPEN">>, <<"OPEN", "HALF_OPEN">>,
                 <<"HALF_OPEN", "CLOSED">>, <<"HALF_OPEN", "OPEN">>}]_vars

\* one caller spreading MaxCalls request() calls (retries=1) over all connectors
NextTargets ==
    \/ \E c \in Connectors :
          Request(1, c, 1) /\ ConcRequestCounted(1, c) /\ UNCHANGED obs
    \/ \E response \in Responses :
          Respond(1, response) /\ ConcRespond(1) /\ UNCHANGED obs
    \/ Wake(1) /\ UNCHANGED <<obs, conc>>
    \/ Tick /\ ConcTick

SpecTargets == InitDefault /\ [][NextTargets]_vars

(* claim C19: each connector id maps to at most one breaker and one        *)
(* limiter, created by the first request() for that id; every later call   *)
(* gets that same instance with its accumulated state, and an entry is     *)
(* never removed or replaced.                                              *)
C19_OneInstancePerConnector ==
    /\ [](/\ DOMAIN circuit_breakers = conc.requested
          /\ DOMAIN rate_limiters = conc.requested)
    /\ [][\A c \in DOMAIN circuit_breakers :
            /\ c \in DOMAIN circuit_breakers'
            /\ c \in DOMAIN rate_limiters'
            /\ (\A t \in Tasks : task[t].pc = "inflight" => task'[t] = task[t]) =>
                  /\ circuit_breakers'[c] \in
                        {circuit_breakers[c], can_execute(circuit_breakers[c], now).cb}
                  /\ rate_limiters'[c] \in
                        {rate_limiters[c], acquire(rate_limiters[c], now).rl}]_vars

C19_Witness ==
    /\ conc.calls = 2
    /\ conc.requested = {1}
    /\ circuit_breakers[1].failure_count >= 3
    /\ rate_limiters[1].tokens < rate_limit_window

(* ------------------------- WorkflowEngine ------------------------------ *)
(* src/src/services/workflow_engine.py.  The steps of a workflow are given  *)
(* to the run one at a time, as the loop reaches them; n_steps is the       *)
(* length of workflow_config["steps"].  A step result carries the type of   *)
(* its step beside the fields of StepResult.  The only await that suspends  *)
(* a run is the asyncio.sleep of a delay step.                              *)

\* class StepType
StepTypes == {"http_request", "transform", "condition", "loop", "parallel", "delay"}

\* the steps a workflow may hold: a declared type or any other string; a
\* delay step's config gives seconds, which may be no number at all (None)
WorkflowSteps ==
    {[type |-> ty, seconds |-> 0] : ty \in (StepTypes \ {"delay"}) \cup {"unknown"}}
    \cup {[type |-> "delay", seconds |-> sec] : sec \in {0, TickStep, None}}

\* the output of the step handlers that do not suspend (lines 115-124)
step_output(step) ==
    IF step.type = "http_request" THEN "response"
    ELSE IF step.type = "transform" THEN "transformed"
    ELSE IF step.type = "condition" THEN "branch"
    ELSE IF step.type = "delay" THEN "delayed_seconds"
    ELSE "empty"

\* _execute_step for a step of a declared type: asyncio.sleep raises
\* TypeError on a delay that is no number, nothing else raises
execute_step(step_id, step) ==
    IF step.type = "delay" /\ step.seconds = None
    THEN [step_id |-> step_id, type |-> step.type, status |-> "failed",
          output |-> "none", error |-> "TypeError"]
    ELSE [step_id |-> step_id, type |-> step.type, status |-> "completed",
          output |-> step_output(step), error |-> "none"]

determine_final_status_last(step_results) ==
    IF step_results # << >> /\ step_results[Len(step_results)].status = "failed"
    THEN "failed"
    ELSE IF \A i \in 1..Len(step_results) : step_results[i].status = "completed"
    THEN "completed"
    ELSE "partial"

determine_final_status(step_results) ==
    IF \E i \in 1..Len(step_results) : step_results[i].status = "failed"
    THEN "failed"
    ELSE IF \A i \in 1..Len(step_results) : step_results[i].status = "completed"
    THEN "completed"
    ELSE "partial"

after_append_front(run, result) ==
    LET results == <<result>> \o run.step_results
        over == \/ (result.status = "failed" /\ run.stop_on_error)
                \/ Len(results) = run.n_steps
    IN  [run EXCEPT !.step_results = results,
                    !.pc = IF over THEN "done" ELSE "running",
                    !.status = IF over THEN determine_final_status(results) ELSE @,
                    !.wake = 0,
                    !.seconds = 0]

\* lines 76-86: append the result, break on a failure under stop_on_error,
\* and return the report when the loop is over
after_append(run, result) ==
    LET results == Append(run.step_results, result)
        over == \/ (result.status = "failed" /\ run.stop_on_error)
                \/ Len(results) = run.n_steps
    IN  [run EXCEPT !.step_results = results,
                    !.pc = IF over THEN "done" ELSE "running",
                    !.status = IF over THEN determine_final_status(results) ELSE @,
                    !.wake = 0,
                    !.seconds = 0]

\* lines 66-72: the context, with execution_id = f"exec_{utcnow().timestamp()}"
StartRun(r, n_steps, stop_on_error) ==
    /\ runs[r].pc = "idle"
    /\ runs' = [runs EXCEPT ![r] =
                  [IdleRun EXCEPT
                     !.execution_id = now,
                     !.n_steps = n_steps,
                     !.stop_on_error = stop_on_error,
                     !.pc = IF n_steps = 0 THEN "done" ELSE "running",
                     !.status = IF n_steps = 0 THEN determine_final_status(<< >>)
                                ELSE "none"]]
    /\ UNCHANGED <<now, cbVars, rlVars, clientVars, conc, cancels>>

\* one iteration of the loop, up to the step's await or to its result;
\* StepType(step.get("type")) sits before the try block (line 105) and raises
\* ValueError, out of execute_workflow, on a type that is not declared
ExecuteStep(r, step) ==
    /\ runs[r].pc = "running"
    /\ runs' = [runs EXCEPT ![r] =
                  LET entered == [@ EXCEPT !.started = Append(@, step.type)]
                  IN  IF step.type \notin StepTypes
                      THEN [entered EXCEPT !.pc = "raised"]
                      ELSE IF step.type = "delay" /\ step.seconds # None
                      THEN [entered EXCEPT !.pc = "sleeping",
                                           !.wake = now + step.seconds,
                                           !.seconds = step.seconds]
                      ELSE after_append(entered,
                                        execute_step(Len(@.step_results) + 1, step))]
    /\ UNCHANGED <<now, cbVars, rlVars, clientVars, conc, cancels>>

\* asyncio.sleep(delay_seconds) is over: the delay step completes
ResumeDelay(r) ==
    /\ runs[r].pc = "sleeping"
    /\ now >= runs[r].wake
    /\ runs' = [runs EXCEPT ![r] =
                  after_append(@, execute_step(Len(@.step_results) + 1,
                                               [type |-> "delay", seconds |-> @.seconds]))]
    /\ UNCHANGED <<now, cbVars, rlVars, clientVars, conc, cancels>>

\* POST /{execution_id}/cancel (src/src/api/executions.py) while the run is
\* suspended in a delay: the handler returns a dict and touches no run.
\* cancels records how many steps the run had started at the call.
CancelExecution(r) ==
    /\ runs[r].pc = "sleeping"
    /\ cancels[r] = None
    /\ cancels' = [cancels EXCEPT ![r] = Len(runs[r].step_results) + 1]
    /\ UNCHANGED <<now, cbVars, rlVars, clientVars, conc, runs>>

\* one run over every workflow of up to MaxSteps steps
NextWF ==
    \/ \E n \in 0..MaxSteps, stop \in BOOLEAN : StartRun(1, n, stop)
    \/ \E step \in WorkflowSteps : ExecuteStep(1, step)
    \/ ResumeDelay(1)
    \/ CancelExecution(1)
    \/ Tick /\ UNCHANGED conc

SpecWF == InitDefault /\ [][NextWF]_vars

\* several runs of workflows of one step, a delay or an http_request
NextRuns ==
    \/ \E r \in Runs : StartRun(r, 1, TRUE)
    \/ \E r \in Runs, step \in {[type |-> "delay", seconds |-> TickStep],
                                 [type |-> "http_request", seconds |-> 0]} :
          ExecuteStep(r, step)
    \/ \E r \in Runs : ResumeDelay(r)
    \/ Tick /\ UNCHANGED conc

SpecRuns == InitDefault /\ [][NextRuns]_vars

(* ------------------- Claims on the workflow engine --------------------- *)

\* a run of execute_workflow that is over: it returned or it raised
Ended(r) == runs[r].pc \in {"done", "raised"}
Returned(r) == runs[r].pc = "done"
AnyFailed(results) == \E i \in 1..Len(results) : results[i].status = "failed"
AllCompleted(results) == \A i \in 1..Len(results) : results[i].status = "completed"

\* C11: when a run is over, under stop_on_error no result follows a Failed
\* one in step_results, and without stop_on_error every step of the workflow
\* has a result in step_results, whatever failed before it.
C11_StopOnErrorPolicy ==
    \A r \in Runs : Ended(r) =>
        LET results == runs[r].step_results
        IN  /\ runs[r].stop_on_error =>
                 \A i \in 1..Len(results) :
                     results[i].status = "failed" => i = Len(results)
            /\ ~runs[r].stop_on_error => Len(results) = runs[r].n_steps

\* C12 as stated: a returned run reports Completed when all its steps are
\* Completed, Failed when any step result is Failed, and Partial when it
\* halted early and left trailing steps of the workflow untouched.
C12_AggregateStatus ==
    \A r \in Runs : Returned(r) =>
        LET results == runs[r].step_results
        IN  /\ (AllCompleted(results) /\ Len(results) = runs[r].n_steps) =>
                 runs[r].status = "completed"
            /\ (AnyFailed(results) /\ Len(results) = runs[r].n_steps) =>
                 runs[r].status = "failed"
            /\ Len(results) < runs[r].n_steps => runs[r].status = "partial"

\* C12 amended: a returned run reports Failed when any step result is
\* Failed, a run that halted early included, and Completed otherwise, every
\* result then being Completed; it never reports Partial.
C12_AggregateStatusAmended ==
    \A r \in Runs : Returned(r) =>
        LET results == runs[r].step_results
        IN  /\ AnyFailed(results) => runs[r].status = "failed"
            /\ ~AnyFailed(results) =>
                 AllCompleted(results) /\ runs[r].status = "completed"
            /\ Len(results) < runs[r].n_steps => runs[r].status = "failed"
            /\ runs[r].status # "partial"

\* a run that halted at a Failed second step of three, after a Completed one
C12_Witness ==
    /\ Returned(1)
    /\ runs[1].n_steps = 3
    /\ Len(runs[1].step_results) = 2
    /\ runs[1].step_results[1].status = "completed"
    /\ runs[1].step_results[2].status = "failed"
    /\ runs[1].status = "failed"

\* C13: no error of a step escapes execute_workflow, whatever the step's
\* type: the run never raises, and every failure is a Failed result that
\* carries an error message.
C13_NoStepErrorEscapes ==
    \A r \in Runs :
        /\ runs[r].pc # "raised"
        /\ \A i \in 1..Len(runs[r].step_results) :
              runs[r].step_results[i].status = "failed" =>
                  runs[r].step_results[i].error # "none"

\* C14: no loop or parallel step has a Completed result with empty output.
C14_LoopParallelNotNoOp ==
    \A r \in Runs : \A i \in 1..Len(runs[r].step_results) :
        runs[r].step_results[i].type \in {"loop", "parallel"} =>
            ~ /\ runs[r].step_results[i].status = "completed"
              /\ runs[r].step_results[i].output = "empty"

\* C15: a run cancelled while suspended returns with a result for every step
\* of the workflow, those not yet started at the cancel marked Cancelled.
C15_CancelMarksRemaining ==
    \A r \in Runs : (cancels[r] # None /\ Returned(r)) =>
        /\ Len(runs[r].step_results) = runs[r].n_steps
        /\ \A i \in 1..Len(runs[r].step_results) :
              i > cancels[r] => runs[r].step_results[i].status = "cancelled"

\* C18: no two runs that have started hold the same execution_id.
C18_UniqueExecutionId ==
    \A r1, r2 \in Runs :
        (r1 # r2 /\ runs[r1].pc # "idle" /\ runs[r2].pc # "idle") =>
            runs[r1].execution_id # runs[r2].execution_id

\* C21: at every point of a run, step_results holds one result for each step
\* whose execution is over, in execution order: result i is the result of
\* the i-th step of the workflow, no step has two results, at most one step
\* was entered without a result yet (the run is then suspended in it, or it
\* raised out of the run), and step_results changes only by one result
\* appended at its end, never after the run is over.
C21_ResultsArePrefixInOrder ==
    /\ [](\A r \in Runs :
            LET results == runs[r].step_results
                started == runs[r].started
            IN  /\ Len(results) <= runs[r].n_steps
                /\ \A i \in 1..Len(results) :
                      /\ results[i].step_id = i
                      /\ results[i].type = started[i]
                /\ Len(started) \in {Len(results), Len(results) + 1}
                /\ Len(started) = Len(results) + 1 =>
                      runs[r].pc \in {"sleeping", "raised"}
                /\ runs[r].pc = "sleeping" => Len(started) = Len(results) + 1)
    /\ [][\A r \in Runs :
            \/ runs'[r].step_results = runs[r].step_results
            \/ /\ ~Ended(r)
               /\ Len(runs'[r].step_results) = Len(runs[r].step_results) + 1
               /\ SubSeq(runs'[r].step_results, 1, Len(runs[r].step_results))
                     = runs[r].step_results]_vars

\* a run suspended in the delay that is its third step, two results appended
C21_Witness ==
    /\ runs[1].pc = "sleeping"
    /\ runs[1].n_steps = 3
    /\ Len(runs[1].step_results) = 2
    /\ runs[1].step_results[1].type = "loop"
    /\ runs[1].step_results[2].type = "transform"
    /\ runs[1].started = <<"loop", "transform", "delay">>

(* claim C22: a request() call on connector A leaves the breaker and the    *)
(* limiter of every other connector B as they were, at each of its steps    *)
(* (its guards, each response, each retry) and whatever its outcome.  The   *)
(* one caller's current call is the call on conc.target.                    *)
C22_OtherTargetsUntouched ==
    [][\A b \in DOMAIN circuit_breakers :
          b # conc'.target =>
              /\ b \in DOMAIN circuit_breakers'
              /\ b \in DOMAIN rate_limiters'
              /\ circuit_breakers'[b] = circuit_breakers[b]
              /\ rate_limiters'[b] = rate_limiters[b]]_vars

\* after a call on connector 2 that failed twice, a call on connector 1 was
\* admitted, took a token and failed
C22_Witness ==
    /\ conc.target = 1
    /\ DOMAIN circuit_breakers = {1, 2}
    /\ circuit_breakers[2].failure_count = 2
    /\ rate_limiters[2].tokens < default_rate_limit * rate_limit_window
    /\ circuit_breakers[1].failure_count >= 1
    /\ rate_limiters[1].tokens < default_rate_limit * rate_limit_window

(* claim C23: a request() call that the breaker rejects (Open, cooldown not *)
(* elapsed) leaves the connector's limiter as it was, no token debited, and *)
(* leaves the breaker as it was (state, failure_count).  A step taken from  *)
(* an idle caller with the clock still is the guard phase of a call.        *)
C23_RejectedCallChangesNothing ==
    [][(/\ task[1].pc = "idle"
        /\ now' = now
        /\ 1 \in DOMAIN circuit_breakers
        /\ Rejecting(circuit_breakers[1], now)) =>
            /\ obs'[1].outcome = "circuit_open"
            /\ obs'[1].granted = 0
            /\ rate_limiters' = rate_limiters
            /\ circuit_breakers'[1].state = circuit_breakers[1].state
            /\ circuit_breakers'[1].failure_count = circuit_breakers[1].failure_count]_vars

\* a call was rejected by the breaker while acquire() would have granted it
\* a token, the limiter having refilled since its last update
C23_Witness ==
    /\ obs[1].outcome = "circuit_open"
    /\ task[1].pc = "idle"
    /\ Rejecting(circuit_breakers[1], now)
    /\ rate_limiters[1].last_update < now
    /\ acquire(rate_limiters[1], now).ret
    /\ acquire(rate_limiters[1], now).rl # rate_limiters[1]

====
